---- MODULE Spec2Model ----
(***************************************************************************)
(* Reconciliation engine of the PMaC sync tool: the issue reconciler       *)
(* (GitHubIssuesAdapter) and the project/board reconciler                  *)
(* (GitHubProjectsAdapter) running against a tracker reached through       *)
(* GitHubClient.  The tracker keeps its issue list newest first, which is  *)
(* the order `gh issue list` and GET /repos/{repo}/issues return.          *)
(* SpecClient is GitHubClient.create_label with its two backends, and      *)
(* SpecValidation is ValidationService over a data directory.              *)
(***************************************************************************)
EXTENDS Integers, Sequences, FiniteSets, TLC

VARIABLES
    stories,          \* sync_stories_to_issues argument: list of Story
    epics,            \* sync_stories_to_issues argument: list of Epic
    issues,           \* the tracker's issue list, newest first
    pc,               \* "idle" | "stories" | "done" | "board_done" | "raised"
    run,              \* 1 for the first sync run, 2 for the rerun
    dry_run,          \* dry_run argument of the current run
    idx,              \* position of the `for story in stories` loop
    created_issues,   \* local list of sync_stories_to_issues
    existing_issues,  \* local list of sync_stories_to_issues
    failed_issues,    \* local list of sync_stories_to_issues
    summary,          \* the returned summary (NoSummary until returned)
    calls,            \* tracker calls issued by the current run, in order
    attempts,         \* one record per create_or_update_issue call of the run
    prev,             \* what the first run left behind, for the rerun
    projects,         \* the tracker's project list of the owner
    board_in,         \* arguments of the create_board_from_model call and the
                      \* owner's projects when it was made
    board_calls,      \* tracker calls issued by create_board_from_model
    board_summary,    \* the summary create_board_from_model returned
    backend,          \* "cli" | "rest": the implementation GitHubClient wraps
    client,           \* the GitHubClient: not constructed, ready, or failed
    repo_labels,      \* the tracker's labels of the repository, by name
    requests,         \* commands / requests the last client call sent
    label_result,     \* outcome of the last GitHubClient.create_label call
    call_result,      \* outcome of the last other GitHubClient operation
    data_dir,         \* the data directory: file name -> file
    validation        \* what the last ValidationService call returned

syncVars == <<stories, epics, issues, run, dry_run, idx, created_issues,
              existing_issues, failed_issues, summary, calls, attempts, prev>>

boardVars == <<projects, board_in, board_calls, board_summary>>

clientVars == <<backend, client, repo_labels, requests, label_result, call_result>>

validationVars == <<data_dir, validation>>

vars == <<pc, syncVars, boardVars, clientVars, validationVars>>

(***************************************************************************)
(* Bounds and program constants                                            *)
(***************************************************************************)
MaxStories == 2

\* list_issues(state="open", limit=100): find_existing_issue passes no limit
DefaultLimit == 100

Min(a, b) == IF a < b THEN a ELSE b

Range(s) == {s[i] : i \in 1..Len(s)}

(***************************************************************************)
(* Domain model                                                            *)
(***************************************************************************)
Story(id, summary_, epic_id, story_points, labels) ==
    [id |-> id, summary |-> summary_, description |-> "d", epic_id |-> epic_id,
     story_points |-> story_points, labels |-> labels, status |-> "To Do"]

Epic(id, title, stories_) ==
    [id |-> id, title |-> title, description |-> "d", stories |-> stories_]

\* The stories the runs draw from: S3 shares its summary with S1, carries a
\* free-form tag equal to S1's id, names an epic that does not exist and has
\* more than ten story points.
StoryPool ==
    { Story("S1", "T1", "E1", 3, <<"bug">>),
      Story("S2", "T2", "", 0, <<>>),
      Story("S3", "T1", "E9", 11, <<"S1", "bug">>) }

StoryLists == UNION {[1..n -> StoryPool] : n \in 0..MaxStories}

EpicLists ==
    { <<>>, <<Epic("E1", "Epic one", <<"S1">>), Epic("E2", "Epic two", <<>>)>> }

(***************************************************************************)
(* Tracker: issue records                                                  *)
(***************************************************************************)
NoIssue == [number |-> 0, title |-> "", labels |-> {}, state |-> "none"]

Shape(title, labels, state) == [title |-> title, labels |-> labels, state |-> state]

\* Issue numbers are assigned in creation order; the list is newest first.
Numbered(shapes) ==
    [p \in 1..Len(shapes) |->
        [number |-> Len(shapes) - p + 1, title |-> shapes[p].title,
         labels |-> shapes[p].labels, state |-> shapes[p].state]]

Pad(n) == [p \in 1..n |-> Shape("unrelated", {}, "closed")]

Tails ==
    { <<>>,
      <<Shape("Old title", {"S1"}, "closed")>>,
      <<Shape("T1", {}, "open"), Shape("Old title", {"S1"}, "open")>>,
      <<Shape("T1", {}, "closed")>>,
      <<Shape("Dup A", {"S1"}, "open"), Shape("Dup B", {"S1", "bug"}, "open")>> }

InitIssueLists ==
    {Numbered(t) : t \in Tails}
    \cup {Numbered(Pad(n) \o <<Shape("Old title", {"S1"}, "closed")>>) :
            n \in {DefaultLimit - 1, DefaultLimit}}

(***************************************************************************)
(* Tracker client (GitHubClient delegating to the CLI or REST backend)     *)
(***************************************************************************)
Call(op, i, name, labels, ok) ==
    [op |-> op, idx |-> i, name |-> name, labels |-> labels, ok |-> ok]

\* The first `limit` issues of the wanted state, in the tracker's order.
list_issues(state, limit) ==
    LET wanted == IF state = "all" THEN issues
                  ELSE SelectSeq(issues, LAMBDA i : i.state = state)
    IN  SubSeq(wanted, 1, Min(limit, Len(wanted)))

\* The tracker's issue list after a successful create_issue.
create_issue(title, body, labels) ==
    <<[number |-> Len(issues) + 1, title |-> title,
       labels |-> Range(labels), state |-> "open"]>> \o issues

(***************************************************************************)
(* GitHubIssuesAdapter                                                     *)
(***************************************************************************)
RECURSIVE ScanByLabel(_, _, _)
ScanByLabel(listed, id, i) ==
    IF i > Len(listed) THEN NoIssue
    ELSE IF id \in listed[i].labels THEN listed[i]
    ELSE ScanByLabel(listed, id, i + 1)

RECURSIVE ScanByTitle(_, _, _)
ScanByTitle(listed, title, i) ==
    IF i > Len(listed) THEN NoIssue
    ELSE IF listed[i].title = title THEN listed[i]
    ELSE ScanByTitle(listed, title, i + 1)

find_existing_issue_title_first(story) ==
    LET listed == list_issues("all", DefaultLimit)
        byTitle == ScanByTitle(listed, story.summary, 1)
    IN  IF byTitle # NoIssue THEN byTitle
        ELSE ScanByLabel(listed, story.id, 1)

\* The scan of find_existing_issue over what list_issues(state="all")
\* returned (the call itself, which may raise, is in create_or_update_issue).
find_existing_issue(story) ==
    LET listed == list_issues("all", DefaultLimit)
        byLabel == ScanByLabel(listed, story.id, 1)
    IN  IF byLabel # NoIssue THEN byLabel
        ELSE ScanByTitle(listed, story.summary, 1)

story_to_issue_payload_points_always(story, epic) ==
    [title |-> story.summary,
     body |-> <<story.description, "ID", story.id, "Epic", story.epic_id>>,
     labels |-> story.labels \o <<story.id>>
                \o (IF story.epic_id # "" THEN <<"epic:" \o story.epic_id>> ELSE <<>>)
                \o <<"points:" \o ToString(story.story_points)>>]

story_to_issue_payload_no_id(story, epic) ==
    [title |-> story.summary,
     body |-> <<story.description, story.id, story.epic_id>>,
     labels |-> story.labels]

StoryAfterPayloadAliased(story) ==
    [story EXCEPT !.labels = story.labels \o <<story.id>>]

\* The story after story_to_issue_payload: `labels = list(story.labels)` is
\* a copy, so the appends that follow leave story.labels as it was.
StoryAfterPayload(story) == story

\* epic is NoEpic when epic_map.get(story.epic_id) found none.
NoEpic == [id |-> "", title |-> "", description |-> "", stories |-> <<>>]

story_to_issue_payload(story, epic) ==
    [title |-> story.summary,
     body |-> <<story.description, "ID", story.id, "Epic", story.epic_id>>
              \o (IF epic # NoEpic THEN <<"Epic Title", epic.title>> ELSE <<>>)
              \o <<"Story Points", ToString(story.story_points), "Status", story.status>>
              \o (IF story.labels # <<>> THEN <<"Labels">> \o story.labels ELSE <<>>),
     labels |-> story.labels \o <<story.id>>
                \o (IF story.epic_id # "" THEN <<"epic:" \o story.epic_id>> ELSE <<>>)
                \o (IF story.story_points > 0
                    THEN <<"points:" \o ToString(story.story_points)>> ELSE <<>>)]

LabelData(name, color, description) ==
    [name |-> name, color |-> color, description |-> description]

\* unique_labels = set(); for story in stories: for label in story.labels: add
unique_labels(stories_) ==
    UNION {Range(stories_[i].labels) : i \in 1..Len(stories_)}

\* The orders in which `for label in unique_labels` may visit the set.
SetOrders(S) ==
    {q \in [1..Cardinality(S) -> S] :
        \A i, j \in 1..Cardinality(S) : q[i] = q[j] => i = j}

required_labels_nine_points(stories_, epics_, tagOrder) ==
    [i \in 1..Len(stories_) |->
        LabelData(stories_[i].id, "FEF2C0", "Story ID: " \o stories_[i].id)]
    \o [i \in 1..Len(epics_) |->
        LabelData("epic:" \o epics_[i].id, "0366D6", epics_[i].title)]
    \o [points \in 1..9 |->
        LabelData("points:" \o ToString(points), "C2E0C6",
                  ToString(points) \o " story points")]
    \o [i \in 1..Len(tagOrder) |->
        LabelData(tagOrder[i], "D4C5F9", "Tag: " \o tagOrder[i])]

\* The required_labels list of ensure_labels_exist; tagOrder is the order in
\* which the unique_labels set is iterated.
required_labels(stories_, epics_, tagOrder) ==
    [i \in 1..Len(stories_) |->
        LabelData(stories_[i].id, "FEF2C0", "Story ID: " \o stories_[i].id)]
    \o [i \in 1..Len(epics_) |->
        LabelData("epic:" \o epics_[i].id, "0366D6", epics_[i].title)]
    \o [points \in 1..10 |->
        LabelData("points:" \o ToString(points), "C2E0C6",
                  ToString(points) \o " story points")]
    \o [i \in 1..Len(tagOrder) |->
        LabelData(tagOrder[i], "D4C5F9", "Tag: " \o tagOrder[i])]

ensure_labels_exist_not_before_stories(stories_, epics_, tagOrder, failing) == <<>>

ensure_labels_exist_abort_on_error(stories_, epics_, tagOrder, failing) ==
    LET req == required_labels(stories_, epics_, tagOrder)
        stop == IF \E i \in 1..Len(req) : i \in failing
                THEN CHOOSE i \in 1..Len(req) :
                        i \in failing /\ \A j \in 1..(i - 1) : j \notin failing
                ELSE Len(req)
    IN  [i \in 1..stop |->
            Call("create_label", 0, req[i].name, {req[i].color}, i \notin failing)]

\* The create_label calls of ensure_labels_exist: one per required label,
\* a failing one is logged and skipped.  failing is the set of positions of
\* required_labels at which client.create_label raises.
ensure_labels_exist(stories_, epics_, tagOrder, failing) ==
    LET req == required_labels(stories_, epics_, tagOrder)
    IN  [i \in 1..Len(req) |->
            Call("create_label", 0, req[i].name, {req[i].color}, i \notin failing)]

Outcome(raised, found, issue, is_new, made, after) ==
    [raised |-> raised, found |-> found, issue |-> issue, is_new |-> is_new,
     calls |-> made, issues |-> after]

create_or_update_issue_ignoring_dry_run(story, epic, dry, k, listOk, createOk) ==
    LET listCall == Call("list_issues", k, "all", {}, listOk)
        existing == find_existing_issue(story)
        payload  == story_to_issue_payload(story, epic)
        createCall == Call("create_issue", k, payload.title, Range(payload.labels), createOk)
        after == create_issue(payload.title, payload.body, payload.labels)
    IN  IF ~listOk THEN Outcome(TRUE, NoIssue, NoIssue, FALSE, <<listCall>>, issues)
        ELSE IF existing # NoIssue
        THEN Outcome(FALSE, existing, existing, FALSE, <<listCall>>, issues)
        ELSE IF createOk
        THEN Outcome(FALSE, existing, after[1], TRUE, <<listCall, createCall>>, after)
        ELSE Outcome(FALSE, existing, NoIssue, FALSE, <<listCall, createCall>>, issues)

create_or_update_issue_dry_run_first(story, epic, dry, k, listOk, createOk) ==
    LET listCall == Call("list_issues", k, "all", {}, listOk)
        existing == find_existing_issue(story)
        payload  == story_to_issue_payload(story, epic)
        createCall == Call("create_issue", k, payload.title, Range(payload.labels), createOk)
        after == create_issue(payload.title, payload.body, payload.labels)
    IN  IF ~listOk THEN Outcome(TRUE, NoIssue, NoIssue, FALSE, <<listCall>>, issues)
        ELSE IF dry
        THEN Outcome(FALSE, existing, NoIssue, TRUE, <<listCall>>, issues)
        ELSE IF existing # NoIssue
        THEN Outcome(FALSE, existing, existing, FALSE, <<listCall>>, issues)
        ELSE IF createOk
        THEN Outcome(FALSE, existing, after[1], TRUE, <<listCall, createCall>>, after)
        ELSE Outcome(FALSE, existing, NoIssue, FALSE, <<listCall, createCall>>, issues)

\* create_or_update_issue for the story at position k of the run.  listOk and
\* createOk say whether client.list_issues and client.create_issue return or
\* raise.  The outcome is what the call raised or returned (issue, is_new),
\* the tracker calls it made and the tracker's issue list after it.
create_or_update_issue(story, epic, dry, k, listOk, createOk) ==
    LET listCall == Call("list_issues", k, "all", {}, listOk)
        existing == find_existing_issue(story)
        payload  == story_to_issue_payload(story, epic)
        createCall == Call("create_issue", k, payload.title, Range(payload.labels), createOk)
        after == create_issue(payload.title, payload.body, payload.labels)
    IN  IF ~listOk THEN Outcome(TRUE, NoIssue, NoIssue, FALSE, <<listCall>>, issues)
        ELSE IF existing # NoIssue
        THEN Outcome(FALSE, existing, existing, FALSE, <<listCall>>, issues)
        ELSE IF dry
        THEN Outcome(FALSE, existing, NoIssue, TRUE, <<listCall>>, issues)
        ELSE IF createOk
        THEN Outcome(FALSE, existing, after[1], TRUE, <<listCall, createCall>>, after)
        ELSE Outcome(FALSE, existing, NoIssue, FALSE, <<listCall, createCall>>, issues)

\* epic_map = {epic.id: epic for epic in epics}; epic_map.get(epic_id)
RECURSIVE epic_map_get(_, _, _)
epic_map_get(epics_, epic_id, i) ==
    IF i = 0 THEN NoEpic
    ELSE IF epics_[i].id = epic_id THEN epics_[i]
    ELSE epic_map_get(epics_, epic_id, i - 1)

Entry(story, issue) ==
    [story_id |-> story.id, issue_number |-> issue.number, title |-> issue.title]

Failure(story, error) == [story_id |-> story.id, error |-> error]

NextStoryAbortOnError(i, raised) == IF raised THEN Len(stories) + 1 ELSE i + 1

\* `for story in stories:` with the try/except inside the loop body
NextStory(i, raised) == i + 1

AfterStoryPropagating(raised) == IF raised THEN "raised" ELSE "stories"

\* Where the run stands after one story: the try/except around
\* create_or_update_issue catches every Exception, so the loop goes on;
\* "raised" would be the exception leaving sync_stories_to_issues.
AfterStory(raised) == "stories"

EmptySummary ==
    [created |-> 0, existing |-> 0, failed |-> 0, total |-> 0,
     created_issues |-> <<>>, existing_issues |-> <<>>, failed_issues |-> <<>>,
     dry_run |-> FALSE]

NoPrev == [present |-> FALSE, summary |-> EmptySummary, issues |-> 0]

Clean == \A i \in 1..Len(calls) : calls[i].ok

(***************************************************************************)
(* GitHubProjectsAdapter                                                   *)
(***************************************************************************)
Project(number, title, name) == [number |-> number, title |-> title, name |-> name]

\* None where a project is expected; name is "" when the record has no name.
NoProject == Project(0, "", "")

Board(name, columns, initial_assignments) ==
    [name |-> name, type |-> "scrum", columns |-> columns,
     initial_assignments |-> initial_assignments]

Column(column, story_ids) == [column |-> column, story_ids |-> story_ids]

BoardPool ==
    { Board("Sprint Board", <<"To Do", "Done">>,
            <<Column("To Do", <<"S1", "S2">>), Column("Done", <<"S3">>)>>),
      Board("Backlog", <<"To Do">>, <<Column("To Do", <<"S2", "S2">>)>>) }

ProjectLists ==
    { <<>>,
      <<Project(1, "Roadmap", ""), Project(2, "Sprint Board", ""),
        Project(3, "Sprint Board", "")>>,
      <<Project(1, "Legacy", "Backlog")>> }

\* issues_map arguments of a board call that follows no sync run.
MapPool ==
    { <<>>, [s \in {"S1"} |-> 7], [s \in {"S1", "S2", "S3"} |-> 7] }

\* The story id -> issue number map a caller builds from a sync summary.
RECURSIVE IssuesMap(_)
IssuesMap(entries) ==
    IF entries = <<>> THEN <<>>
    ELSE LET e == entries[Len(entries)]
             rest == IssuesMap(SubSeq(entries, 1, Len(entries) - 1))
         IN  [s \in DOMAIN rest \cup {e.story_id} |->
                 IF s = e.story_id THEN e.issue_number ELSE rest[s]]

RECURSIVE ScanProjectsLast(_, _, _)
ScanProjectsLast(listed, name, i) ==
    IF i > Len(listed) THEN NoProject
    ELSE LET later == ScanProjectsLast(listed, name, i + 1)
         IN  IF later # NoProject THEN later
             ELSE IF listed[i].title = name \/ listed[i].name = name THEN listed[i]
             ELSE NoProject

RECURSIVE ScanProjects(_, _, _)
ScanProjects(listed, name, i) ==
    IF i > Len(listed) THEN NoProject
    ELSE IF listed[i].title = name \/ listed[i].name = name THEN listed[i]
    ELSE ScanProjects(listed, name, i + 1)

\* find_existing_project: a failing list_projects is logged and yields None.
find_existing_project(name, listOk) ==
    IF listOk THEN ScanProjects(projects, name, 1) ELSE NoProject

ProjectOutcome(project, is_new, made, after) ==
    [project |-> project, is_new |-> is_new, calls |-> made, projects |-> after]

create_project_retrying(name, dry, listOk, createOk) ==
    LET listCall == Call("list_projects", 0, name, {}, listOk)
        createCall == Call("create_project", 0, name, {}, createOk)
        existing == find_existing_project(name, listOk)
        created == Project(Len(projects) + 1, name, "")
    IN  IF existing # NoProject
        THEN ProjectOutcome(existing, FALSE, <<listCall>>, projects)
        ELSE IF dry
        THEN ProjectOutcome(NoProject, TRUE, <<listCall>>, projects)
        ELSE IF createOk
        THEN ProjectOutcome(created, TRUE, <<listCall, createCall>>,
                            Append(projects, created))
        ELSE ProjectOutcome(NoProject, FALSE, <<listCall, createCall, createCall>>,
                            projects)

create_project_dry_run_creates(name, dry, listOk, createOk) ==
    LET listCall == Call("list_projects", 0, name, {}, listOk)
        createCall == Call("create_project", 0, name, {}, createOk)
        existing == find_existing_project(name, listOk)
        created == Project(Len(projects) + 1, name, "")
    IN  IF existing # NoProject
        THEN ProjectOutcome(existing, FALSE, <<listCall>>, projects)
        ELSE IF createOk
        THEN ProjectOutcome(created, TRUE, <<listCall, createCall>>,
                            Append(projects, created))
        ELSE ProjectOutcome(NoProject, FALSE, <<listCall, createCall>>, projects)

\* GitHubProjectsAdapter.create_project: (project, is_new), the tracker calls
\* made and the tracker's project list afterwards.
create_project(name, dry, listOk, createOk) ==
    LET listCall == Call("list_projects", 0, name, {}, listOk)
        createCall == Call("create_project", 0, name, {}, createOk)
        existing == find_existing_project(name, listOk)
        created == Project(Len(projects) + 1, name, "")
    IN  IF existing # NoProject
        THEN ProjectOutcome(existing, FALSE, <<listCall>>, projects)
        ELSE IF dry
        THEN ProjectOutcome(NoProject, TRUE, <<listCall>>, projects)
        ELSE IF createOk
        THEN ProjectOutcome(created, TRUE, <<listCall, createCall>>,
                            Append(projects, created))
        ELSE ProjectOutcome(NoProject, FALSE, <<listCall, createCall>>, projects)

\* for column_name, story_ids in initial_assignments.items():
\*     for story_id in story_ids: ...   flattened, in iteration order
RECURSIVE Assignments(_)
Assignments(cols) ==
    IF cols = <<>> THEN <<>>
    ELSE [i \in 1..Len(cols[1].story_ids) |->
            [column |-> cols[1].column, story_id |-> cols[1].story_ids[i]]]
         \o Assignments(Tail(cols))

\* The assignments whose story id is in issues_map: the ones that are linked.
Links(board, issues_map) ==
    SelectSeq(Assignments(board.initial_assignments),
              LAMBDA a : a.story_id \in DOMAIN issues_map)

Detail(a, issues_map) ==
    [story_id |-> a.story_id, issue_number |-> issues_map[a.story_id],
     column |-> a.column]

create_board_from_model_abort_on_failed_add(board, issues_map, dry, listOk, createOk, failing) ==
    LET p == create_project(board.name, dry, listOk, createOk)
        all == IF ~dry /\ p.project # NoProject
               THEN Links(board, issues_map) ELSE <<>>
        bad == {i \in 1..Len(all) : i \in failing}
        stop == IF bad = {} THEN Len(all) ELSE CHOOSE i \in bad : \A j \in bad : i <= j
        links == SubSeq(all, 1, stop)
        ok(i) == i \notin failing
        added == SelectSeq([i \in 1..Len(links) |-> [pos |-> i, a |-> links[i]]],
                           LAMBDA x : ok(x.pos))
        failed == SelectSeq([i \in 1..Len(links) |-> [pos |-> i, a |-> links[i]]],
                            LAMBDA x : ~ok(x.pos))
        addCalls == [i \in 1..Len(links) |->
                        Call("add_issue_to_project", i, links[i].story_id,
                             {issues_map[links[i].story_id]}, ok(i))]
    IN  IF p.project = NoProject /\ ~dry
        THEN [summary |-> [success |-> FALSE, message |-> "Failed to create project",
                           is_new |-> p.is_new, dry_run |-> dry],
              calls |-> p.calls, projects |-> p.projects]
        ELSE [summary |->
                [success |-> TRUE, project_name |-> board.name,
                 project_number |-> p.project.number, is_new |-> p.is_new,
                 added_issues |-> Len(added), failed_issues |-> Len(failed),
                 added_issues_details |->
                    [i \in 1..Len(added) |-> Detail(added[i].a, issues_map)],
                 failed_issues_details |->
                    [i \in 1..Len(failed) |-> Detail(failed[i].a, issues_map)],
                 dry_run |-> dry],
              calls |-> p.calls \o addCalls, projects |-> p.projects]

create_board_from_model_linking_unmapped(board, issues_map, dry, listOk, createOk, failing) ==
    LET p == create_project(board.name, dry, listOk, createOk)
        links == IF ~dry /\ p.project # NoProject
                 THEN Assignments(board.initial_assignments) ELSE <<>>
        number(a) == IF a.story_id \in DOMAIN issues_map THEN issues_map[a.story_id] ELSE 0
        ok(i) == i \notin failing /\ links[i].story_id \in DOMAIN issues_map
        detail(a) == [story_id |-> a.story_id, issue_number |-> number(a),
                      column |-> a.column]
        added == SelectSeq([i \in 1..Len(links) |-> [pos |-> i, a |-> links[i]]],
                           LAMBDA x : ok(x.pos))
        failed == SelectSeq([i \in 1..Len(links) |-> [pos |-> i, a |-> links[i]]],
                            LAMBDA x : ~ok(x.pos))
        addCalls == [i \in 1..Len(links) |->
                        Call("add_issue_to_project", i, links[i].story_id,
                             {number(links[i])}, ok(i))]
    IN  IF p.project = NoProject /\ ~dry
        THEN [summary |-> [success |-> FALSE, message |-> "Failed to create project",
                           is_new |-> p.is_new, dry_run |-> dry],
              calls |-> p.calls, projects |-> p.projects]
        ELSE [summary |->
                [success |-> TRUE, project_name |-> board.name,
                 project_number |-> p.project.number, is_new |-> p.is_new,
                 added_issues |-> Len(added), failed_issues |-> Len(failed),
                 added_issues_details |-> [i \in 1..Len(added) |-> detail(added[i].a)],
                 failed_issues_details |-> [i \in 1..Len(failed) |-> detail(failed[i].a)],
                 dry_run |-> dry],
              calls |-> p.calls \o addCalls, projects |-> p.projects]

\* create_board_from_model.  listOk, createOk: whether client.list_projects
\* and client.create_project return or raise; failing: the positions of
\* Links at which client.add_issue_to_project raises.
create_board_from_model(board, issues_map, dry, listOk, createOk, failing) ==
    LET p == create_project(board.name, dry, listOk, createOk)
        links == IF ~dry /\ p.project # NoProject
                 THEN Links(board, issues_map) ELSE <<>>
        ok(i) == i \notin failing
        added == SelectSeq([i \in 1..Len(links) |-> [pos |-> i, a |-> links[i]]],
                           LAMBDA x : ok(x.pos))
        failed == SelectSeq([i \in 1..Len(links) |-> [pos |-> i, a |-> links[i]]],
                            LAMBDA x : ~ok(x.pos))
        addCalls == [i \in 1..Len(links) |->
                        Call("add_issue_to_project", i, links[i].story_id,
                             {issues_map[links[i].story_id]}, ok(i))]
    IN  IF p.project = NoProject /\ ~dry
        THEN [summary |-> [success |-> FALSE, message |-> "Failed to create project",
                           is_new |-> p.is_new, dry_run |-> dry],
              calls |-> p.calls, projects |-> p.projects]
        ELSE [summary |->
                [success |-> TRUE, project_name |-> board.name,
                 project_number |-> p.project.number, is_new |-> p.is_new,
                 added_issues |-> Len(added), failed_issues |-> Len(failed),
                 added_issues_details |->
                    [i \in 1..Len(added) |-> Detail(added[i].a, issues_map)],
                 failed_issues_details |->
                    [i \in 1..Len(failed) |-> Detail(failed[i].a, issues_map)],
                 dry_run |-> dry],
              calls |-> p.calls \o addCalls, projects |-> p.projects]

\* The board and issues_map arguments when create_board_from_model returns:
\* the call reads board.name, board.initial_assignments and
\* issues_map[story_id] and assigns to none of them.
InputsAfterBoard(board, issues_map) == [board |-> board, issues_map |-> issues_map]

NoBoardCall ==
    [board |-> Board("", <<>>, <<>>), issues_map |-> <<>>, dry_run |-> FALSE,
     projects |-> <<>>, after |-> InputsAfterBoard(Board("", <<>>, <<>>), <<>>)]

(***************************************************************************)
(* GitHubClient.create_label and its two implementations                   *)
(***************************************************************************)
\* The labels create_label is called with: name, color, description.
LabelPool ==
    { LabelData("bug", "D4C5F9", "Tag: bug"), LabelData("bug", "FEF2C0", "Story ID: bug"),
      LabelData("S1", "FEF2C0", "Story ID: S1"), LabelData("S1", "D4C5F9", "Tag: S1") }

\* The tracker's answer to a request: its outcome and the labels afterwards.
Answer(outcome, after) == [outcome |-> outcome, labels |-> after]

Put(store, label) ==
    [n \in DOMAIN store \cup {label.name} |-> IF n = label.name THEN label ELSE store[n]]

\* `gh label create` / POST /repos/{repo}/labels: rejected when a label of
\* that name exists.  down: the tracker cannot be reached or answers 5xx.
TrackerCreateLabel(store, label, down) ==
    IF down THEN Answer("unavailable", store)
    ELSE IF label.name \in DOMAIN store THEN Answer("already exists", store)
    ELSE Answer("ok", Put(store, label))

\* `gh label edit` / PATCH /repos/{repo}/labels/{name}
TrackerUpdateLabel(store, label, down) ==
    IF down THEN Answer("unavailable", store)
    ELSE IF label.name \notin DOMAIN store THEN Answer("not found", store)
    ELSE Answer("ok", Put(store, label))

Request(op, label) == [op |-> op, label |-> label]

LabelOutcome(raised, made, after) == [raised |-> raised, requests |-> made, labels |-> after]

\* _run_cli_command: raises GitHubClientError, carrying the command's
\* stderr, only if check_error is set and the command exits non-zero.
\* The result is the message of the raised error, "" if none is raised.
_run_cli_command(outcome, check_error) ==
    IF check_error /\ outcome # "ok" THEN outcome ELSE ""

\* GitHubCLIImplementation.create_label: the create command runs with
\* check_error=False.
cli_create_label(store, label, createDown, updateDown) ==
    LET c == TrackerCreateLabel(store, label, createDown)
        e == _run_cli_command(c.outcome, FALSE)
        u == TrackerUpdateLabel(c.labels, label, updateDown)
        e2 == _run_cli_command(u.outcome, TRUE)
    IN  IF e = "" THEN LabelOutcome(FALSE, <<Request("create", label)>>, c.labels)
        ELSE IF e = "already exists"
        THEN LabelOutcome(e2 # "", <<Request("create", label), Request("update", label)>>,
                          u.labels)
        ELSE LabelOutcome(TRUE, <<Request("create", label)>>, c.labels)

\* _request: the status code of the GitHubAPIError it raises, 0 if it returns.
_request(outcome) ==
    IF outcome = "ok" THEN 0
    ELSE IF outcome = "already exists" THEN 422
    ELSE IF outcome = "not found" THEN 404
    ELSE IF outcome = "not authenticated" THEN 401
    ELSE IF outcome = "rate limited" THEN 429
    ELSE 503

\* GitHubRESTImplementation.create_label
rest_create_label(store, label, createDown, updateDown) ==
    LET c == TrackerCreateLabel(store, label, createDown)
        e == _request(c.outcome)
        u == TrackerUpdateLabel(c.labels, label, updateDown)
        e2 == _request(u.outcome)
    IN  IF e = 0 THEN LabelOutcome(FALSE, <<Request("create", label)>>, c.labels)
        ELSE IF e = 422
        THEN LabelOutcome(e2 # 0, <<Request("create", label), Request("update", label)>>,
                          u.labels)
        ELSE LabelOutcome(TRUE, <<Request("create", label)>>, c.labels)

\* GitHubClient.create_label delegates to the implementation in use.
create_label(impl, store, label, createDown, updateDown) ==
    IF impl = "cli" THEN cli_create_label(store, label, createDown, updateDown)
    ELSE rest_create_label(store, label, createDown, updateDown)

NoLabelResult ==
    [called |-> FALSE, label |-> LabelData("", "", ""), existed |-> FALSE,
     down |-> FALSE, raised |-> FALSE]

\* What the auth check of the backend meets: a working login, a rejected
\* one, an exhausted rate limit, or no way to reach the tracker at all (no
\* gh executable, no connection).
AuthOutcomes == {"ok", "not authenticated", "rate limited", "unreachable"}

\* GitHubCLIImplementation.check_auth: the class of the exception it
\* raises, "" if it returns True.  Without a gh executable subprocess.run
\* raises FileNotFoundError, which neither _run_cli_command nor check_auth
\* catches.
cli_check_auth(outcome) ==
    IF outcome = "unreachable" THEN "FileNotFoundError"
    ELSE IF _run_cli_command(outcome, TRUE) # "" THEN "GitHubAuthError"
    ELSE ""

\* GitHubRESTImplementation.check_auth: every GitHubAPIError of _request,
\* GitHubRateLimitError included, becomes GitHubAuthError.
rest_check_auth(outcome) ==
    IF _request(outcome) # 0 THEN "GitHubAuthError" ELSE ""

check_auth(impl, outcome) ==
    IF impl = "cli" THEN cli_check_auth(outcome) ELSE rest_check_auth(outcome)

_verify_auth_logging_only(raised) == ""

\* GitHubClient._verify_auth: any exception of check_auth is raised again
\* as GitHubAuthError; the result is the class raised, "" if none.
_verify_auth(raised) == IF raised # "" THEN "GitHubAuthError" ELSE ""

Client(state, auth, raised) == [state |-> state, auth |-> auth, raised |-> raised]

NoClient == Client("none", "", "")

(***************************************************************************)
(* GitHubClient operations on issues and projects: what reaches the caller *)
(***************************************************************************)
\* What a command or request of an operation meets at the tracker.
TransportOutcomes == {"ok", "rate limited", "unavailable"}

ClientOps ==
    {"list_issues", "create_issue", "list_projects", "create_project",
     "add_issue_to_project"}

\* The class of the error _run_cli_command raises for the stderr text of a
\* failed command ("" if it raises none): GitHubRateLimitError when the
\* text says the API rate limit is exceeded, GitHubClientError otherwise.
cli_error(message) ==
    IF message = "" THEN ""
    ELSE IF message = "rate limited" THEN "GitHubRateLimitError"
    ELSE "GitHubClientError"

\* The class of the error _request raises for a status ("" for none).
rest_error(status) ==
    IF status = 0 THEN ""
    ELSE IF status = 429 THEN "GitHubRateLimitError"
    ELSE "GitHubAPIError"

\* What an operation raised (a class name, "" if it returned) and the
\* commands or requests it sent, in order.
CallOutcome(raised, sent) == [raised |-> raised, sent |-> sent]

cli_list_issues(outcome) ==
    CallOutcome(cli_error(_run_cli_command(outcome, TRUE)), <<"issue list">>)

\* After `gh issue create` the created issue is fetched with get_issue.
cli_create_issue(outcome) ==
    LET e == cli_error(_run_cli_command(outcome, TRUE))
    IN  IF e # "" THEN CallOutcome(e, <<"issue create">>)
        ELSE CallOutcome("", <<"issue create", "issue view">>)

\* GitHubCLIImplementation.list_projects: a GitHubClientError of the JSON
\* listing is caught and the listing is run again in text format; whatever
\* that meets, nothing is raised: its errors are caught and [] is returned.
cli_list_projects(outcome) ==
    IF cli_error(_run_cli_command(outcome, TRUE)) = ""
    THEN CallOutcome("", <<"project list --format json">>)
    ELSE CallOutcome("", <<"project list --format json", "project list">>)

cli_create_project(outcome) ==
    CallOutcome(cli_error(_run_cli_command(outcome, TRUE)), <<"project create">>)

cli_add_issue_to_project(outcome) ==
    CallOutcome(cli_error(_run_cli_command(outcome, TRUE)), <<"project item-add">>)

\* One page is requested from a repository of fewer than per_page issues.
rest_list_issues(outcome) ==
    CallOutcome(rest_error(_request(outcome)), <<"GET issues">>)

rest_create_issue(outcome) ==
    CallOutcome(rest_error(_request(outcome)), <<"POST issues">>)

rest_list_projects(outcome) ==
    CallOutcome(rest_error(_request(outcome)), <<"POST graphql projectsV2">>)

rest_create_project(outcome) ==
    CallOutcome(rest_error(_request(outcome)), <<"POST graphql createProjectV2">>)

\* GitHubRESTImplementation.add_issue_to_project: three GraphQL requests
\* inside one try whose except turns every GitHubAPIError into a
\* GitHubClientError.  outcome is what the first request meets; the later
\* ones succeed.
rest_add_issue_to_project(outcome) ==
    IF rest_error(_request(outcome)) # ""
    THEN CallOutcome("GitHubClientError", <<"POST graphql projectV2">>)
    ELSE CallOutcome("", <<"POST graphql projectV2", "POST graphql issue",
                           "POST graphql addProjectV2ItemById">>)

\* GitHubClient.<op>: return self._impl.<op>(...)
client_call(impl, op, outcome) ==
    IF impl = "cli"
    THEN CASE op = "list_issues" -> cli_list_issues(outcome)
           [] op = "create_issue" -> cli_create_issue(outcome)
           [] op = "list_projects" -> cli_list_projects(outcome)
           [] op = "create_project" -> cli_create_project(outcome)
           [] op = "add_issue_to_project" -> cli_add_issue_to_project(outcome)
    ELSE CASE op = "list_issues" -> rest_list_issues(outcome)
           [] op = "create_issue" -> rest_create_issue(outcome)
           [] op = "list_projects" -> rest_list_projects(outcome)
           [] op = "create_project" -> rest_create_project(outcome)
           [] op = "add_issue_to_project" -> rest_add_issue_to_project(outcome)

NoCallResult == [called |-> FALSE, op |-> "", outcome |-> "", raised |-> "", sent |-> <<>>]

ClientIdle ==
    /\ backend = "cli"
    /\ client = Client("ready", "ok", "")
    /\ repo_labels = <<>>
    /\ requests = <<>>
    /\ label_result = NoLabelResult
    /\ call_result = NoCallResult

(***************************************************************************)
(* ValidationService                                                       *)
(***************************************************************************)
\* SCHEMA_MAP.keys(), in declaration order
SCHEMA_MAP ==
    <<"epics.json", "stories.json", "sprints.json", "scrum_board.json",
      "views.json", "project_meta.json", "project_plan.json">>

\* A file of the data directory: absent, not parseable, or parsed JSON.
Missing == [state |-> "missing"]
Malformed == [state |-> "malformed"]
Json(data) == [state |-> "json", data |-> data]

Sprint(name, stories_) ==
    [name |-> name, start_date |-> "2025-01-01", end_date |-> "2025-01-14",
     stories |-> stories_]

View(name) == [type |-> "board", name |-> name, columns |-> <<"To Do", "Done">>]

ProjectMeta(key) == [project_key |-> key, name |-> "PMaC", description |-> "d"]

RECURSIVE Flatten(_)
Flatten(ss) == IF ss = <<>> THEN <<>> ELSE ss[1] \o Flatten(Tail(ss))

\* "required": one error per key the object lacks
RequiredErrors(obj, keys, path) ==
    LET lacking == SelectSeq(keys, LAMBDA k : k \notin DOMAIN obj)
    IN  [i \in 1..Len(lacking) |-> path \o "'" \o lacking[i] \o "' is a required property"]

ItemPath(i) == "deque([" \o ToString(i - 1) \o "]): "

EPIC_SCHEMA(data) ==
    Flatten([i \in 1..Len(data) |->
        RequiredErrors(data[i], <<"id", "title", "description", "stories">>, ItemPath(i))])

STORY_SCHEMA(data) ==
    Flatten([i \in 1..Len(data) |->
        RequiredErrors(data[i], <<"id", "summary", "description", "epic_id",
                                  "story_points", "status">>, ItemPath(i))
        \o (IF "story_points" \in DOMAIN data[i] /\ data[i].story_points < 0
            THEN <<ItemPath(i) \o ToString(data[i].story_points)
                     \o " is less than the minimum of 0">>
            ELSE <<>>)
        \o (IF "status" \in DOMAIN data[i]
               /\ data[i].status \notin {"To Do", "In Progress", "Review", "Done"}
            THEN <<ItemPath(i) \o "'" \o data[i].status \o "' is not one of the statuses">>
            ELSE <<>>)])

SPRINT_SCHEMA(data) ==
    Flatten([i \in 1..Len(data) |->
        RequiredErrors(data[i], <<"name", "start_date", "end_date", "stories">>, ItemPath(i))])

BOARD_SCHEMA(data) ==
    RequiredErrors(data, <<"board">>, "")
    \o (IF "board" \in DOMAIN data
        THEN RequiredErrors(data.board, <<"type", "name", "columns", "initial_assignments">>,
                            "deque(['board']): ")
             \o (IF "type" \in DOMAIN data.board /\ data.board.type \notin {"scrum", "kanban"}
                 THEN <<"deque(['board', 'type']): '" \o data.board.type
                          \o "' is not one of ['scrum', 'kanban']">>
                 ELSE <<>>)
        ELSE <<>>)

VIEWS_SCHEMA(data) ==
    Flatten([i \in 1..Len(data) |->
        RequiredErrors(data[i], <<"type", "name", "columns">>, ItemPath(i))])

PROJECT_META_SCHEMA(data) ==
    RequiredErrors(data, <<"project_key", "name", "description">>, "")

PROJECT_PLAN_SCHEMA(data) ==
    RequiredErrors(data, <<"project", "epics", "stories", "sprints", "views">>, "")
    \o (IF "project" \in DOMAIN data THEN PROJECT_META_SCHEMA(data.project) ELSE <<>>)
    \o (IF "epics" \in DOMAIN data THEN EPIC_SCHEMA(data.epics) ELSE <<>>)
    \o (IF "stories" \in DOMAIN data THEN STORY_SCHEMA(data.stories) ELSE <<>>)
    \o (IF "sprints" \in DOMAIN data THEN SPRINT_SCHEMA(data.sprints) ELSE <<>>)
    \o (IF "views" \in DOMAIN data THEN VIEWS_SCHEMA(data.views) ELSE <<>>)

\* jsonschema.Draft7Validator(SCHEMA_MAP[filename]).iter_errors(data)
iter_errors(filename, data) ==
    CASE filename = "epics.json" -> EPIC_SCHEMA(data)
      [] filename = "stories.json" -> STORY_SCHEMA(data)
      [] filename = "sprints.json" -> SPRINT_SCHEMA(data)
      [] filename = "scrum_board.json" -> BOARD_SCHEMA(data)
      [] filename = "views.json" -> VIEWS_SCHEMA(data)
      [] filename = "project_meta.json" -> PROJECT_META_SCHEMA(data)
      [] filename = "project_plan.json" -> PROJECT_PLAN_SCHEMA(data)

Checked(valid, errors) == [valid |-> valid, errors |-> errors]

validate_file(filename) ==
    IF filename \notin Range(SCHEMA_MAP)
    THEN Checked(FALSE, <<"No schema defined for " \o filename>>)
    ELSE IF data_dir[filename].state = "missing"
    THEN Checked(FALSE, <<"File not found: " \o filename>>)
    ELSE IF data_dir[filename].state = "malformed"
    THEN Checked(FALSE, <<"Invalid JSON in " \o filename \o ": Expecting value">>)
    ELSE LET errors == iter_errors(filename, data_dir[filename].data)
         IN  Checked(errors = <<>>, errors)

FileResults(valid, results) == [valid |-> valid, results |-> results]

validate_all_files_fail_fast ==
    LET bad == {i \in 1..Len(SCHEMA_MAP) : ~validate_file(SCHEMA_MAP[i]).valid}
        last == IF bad = {} THEN Len(SCHEMA_MAP)
                ELSE CHOOSE i \in bad : \A j \in bad : i <= j
        results == [f \in {SCHEMA_MAP[i] : i \in 1..last} |-> validate_file(f)]
    IN  FileResults(bad = {}, results)

\* validate_all_files: every file of SCHEMA_MAP is validated; the overall
\* flag is cleared by any invalid one.
validate_all_files ==
    LET results == [f \in Range(SCHEMA_MAP) |-> validate_file(f)]
    IN  FileResults(\A f \in Range(SCHEMA_MAP) : results[f].valid, results)

\* _load_json_file: "" if the file loads, else the message of the
\* FileNotFoundError / JSONDecodeError it raises.
_load_json_file(filename) ==
    IF data_dir[filename].state = "missing" THEN "File not found: " \o filename
    ELSE IF data_dir[filename].state = "malformed" THEN "Expecting value"
    ELSE ""

Ids(objs) == {objs[i].id : i \in 1..Len(objs)}

\* Check 1: every story id an epic lists is the id of a story.
epic_story_errors(story_ids, epics_) ==
    Flatten([i \in 1..Len(epics_) |->
        LET unknown == SelectSeq(epics_[i].stories, LAMBDA id : id \notin story_ids)
        IN  [j \in 1..Len(unknown) |->
                "Epic " \o epics_[i].id \o " references non-existent story " \o unknown[j]]])

\* Check 2: every story's epic_id is the id of an epic.
story_epic_errors(stories_, epic_ids) ==
    LET unknown == SelectSeq(stories_, LAMBDA story : story.epic_id \notin epic_ids)
    IN  [j \in 1..Len(unknown) |->
            "Story " \o unknown[j].id \o " references non-existent epic "
                \o unknown[j].epic_id]

\* Check 3: every story id a sprint lists is the id of a story.
sprint_story_errors(story_ids, sprints_) ==
    Flatten([i \in 1..Len(sprints_) |->
        LET unknown == SelectSeq(sprints_[i].stories, LAMBDA id : id \notin story_ids)
        IN  [j \in 1..Len(unknown) |->
                "Sprint " \o sprints_[i].name \o " references non-existent story "
                    \o unknown[j]]])

\* Checks 4 and 5, per entry of initial_assignments: the column is one of
\* the board's columns, and every assigned story id is the id of a story.
board_errors(story_ids, board) ==
    Flatten([i \in 1..Len(board.initial_assignments) |->
        LET a == board.initial_assignments[i]
            unknown == SelectSeq(a.story_ids, LAMBDA id : id \notin story_ids)
        IN  (IF a.column \notin Range(board.columns)
             THEN <<"Board initial assignment references non-existent column " \o a.column>>
             ELSE <<>>)
            \o [j \in 1..Len(unknown) |->
                  "Board initial assignment for column " \o a.column
                      \o " references non-existent story " \o unknown[j]]])

Loaded == <<"stories.json", "epics.json", "sprints.json", "scrum_board.json">>

validate_relationships_first_check_only ==
    LET failed == SelectSeq(Loaded, LAMBDA f : _load_json_file(f) # "")
        story_ids == Ids(data_dir["stories.json"].data)
        checks ==
            << epic_story_errors(story_ids, data_dir["epics.json"].data),
               story_epic_errors(data_dir["stories.json"].data,
                                 Ids(data_dir["epics.json"].data)),
               sprint_story_errors(story_ids, data_dir["sprints.json"].data),
               board_errors(story_ids, data_dir["scrum_board.json"].data.board) >>
        hit == SelectSeq(checks, LAMBDA c : c # <<>>)
        errors == IF failed # <<>>
                  THEN <<"Error validating relationships: " \o _load_json_file(failed[1])>>
                  ELSE IF hit = <<>> THEN <<>> ELSE hit[1]
    IN  Checked(errors = <<>>, errors)

\* validate_relationships: the four files are loaded, then the checks run
\* one after the other and append to one error list.  The files of the
\* data directory carry every key the checks read.
validate_relationships ==
    LET failed == SelectSeq(Loaded, LAMBDA f : _load_json_file(f) # "")
        story_ids == Ids(data_dir["stories.json"].data)
        errors ==
            IF failed # <<>>
            THEN <<"Error validating relationships: " \o _load_json_file(failed[1])>>
            ELSE epic_story_errors(story_ids, data_dir["epics.json"].data)
                 \o story_epic_errors(data_dir["stories.json"].data,
                                      Ids(data_dir["epics.json"].data))
                 \o sprint_story_errors(story_ids, data_dir["sprints.json"].data)
                 \o board_errors(story_ids, data_dir["scrum_board.json"].data.board)
    IN  Checked(errors = <<>>, errors)

Validated(valid, schema_validation, relationship_validation, called) ==
    [valid |-> valid, schema_validation |-> schema_validation,
     relationship_validation |-> relationship_validation,
     relationships_called |-> called]

validate_all_unconditional ==
    LET schema_validation == validate_all_files
        relationship == validate_relationships
    IN  Validated(schema_validation.valid /\ relationship.valid, schema_validation,
                  relationship, TRUE)

\* validate_all: the relationship phase runs only if the schema phase found
\* every file valid.  relationships_called records whether it ran.
validate_all ==
    LET schema_validation == validate_all_files
        relationship == IF schema_validation.valid THEN validate_relationships
                        ELSE Checked(FALSE, <<>>)
    IN  Validated(schema_validation.valid /\ relationship.valid, schema_validation,
                  relationship, schema_validation.valid)

NoValidation == [op |-> "none"]

ValidationIdle ==
    /\ data_dir = <<>>
    /\ validation = NoValidation

\* The inputs of a sync run against a repository without projects, or no
\* stories and an owner who already has projects.
Init ==
    /\ \/ /\ stories \in StoryLists
          /\ epics \in EpicLists
          /\ issues \in InitIssueLists
          /\ projects = <<>>
       \/ /\ stories = <<>>
          /\ epics = <<>>
          /\ issues = <<>>
          /\ projects \in ProjectLists
    /\ pc = "idle"
    /\ run = 1
    /\ dry_run = FALSE
    /\ idx = 1
    /\ created_issues = <<>>
    /\ existing_issues = <<>>
    /\ failed_issues = <<>>
    /\ summary = EmptySummary
    /\ calls = <<>>
    /\ attempts = <<>>
    /\ prev = NoPrev
    /\ board_in = NoBoardCall
    /\ board_calls = <<>>
    /\ board_summary = <<>>
    /\ ClientIdle
    /\ ValidationIdle

\* sync_stories_to_issues up to the story loop: label provisioning unless
\* dry_run, then the empty result lists.  A second run starts from the state
\* a first run without failed calls left behind.  In the first run
\* create_label raises for no label, for the first one or for the second and
\* third; the rerun is the run in which every call succeeds.
SyncBegin ==
    /\ \/ pc = "idle" /\ run' = run /\ prev' = prev
       \/ /\ pc = "done" /\ run = 1 /\ Clean
          /\ run' = 2
          /\ prev' = [present |-> TRUE, summary |-> summary, issues |-> Len(issues)]
    /\ \E d \in BOOLEAN :
          /\ dry_run' = d
          /\ IF d THEN calls' = <<>>
             ELSE \E tagOrder \in SetOrders(unique_labels(stories)) :
                  \E failing \in IF run' = 1 THEN {{}, {1}, {2, 3}} ELSE {{}} :
                      calls' = ensure_labels_exist(stories, epics, tagOrder, failing)
    /\ pc' = "stories"
    /\ idx' = 1
    /\ created_issues' = <<>>
    /\ existing_issues' = <<>>
    /\ failed_issues' = <<>>
    /\ summary' = EmptySummary
    /\ attempts' = <<>>
    /\ UNCHANGED <<stories, epics, issues, boardVars, clientVars, validationVars>>

\* What the tracker holds for the story right before its discovery.
Observed(story) ==
    LET listed == list_issues("all", DefaultLimit)
        byLabel == {p \in 1..Len(listed) : story.id \in listed[p].labels}
        byTitle == {p \in 1..Len(listed) : listed[p].title = story.summary}
        first(S) == IF S = {} THEN 0 ELSE CHOOSE p \in S : \A q \in S : p <= q
    IN  [labelled |-> {issues[p].number : p \in {q \in 1..Len(issues) : story.id \in issues[q].labels}},
         titled |-> {issues[p].number : p \in {q \in 1..Len(issues) : issues[q].title = story.summary}},
         labelPos |-> first(byLabel),
         titlePos |-> first(byTitle),
         labelNo |-> IF byLabel = {} THEN 0 ELSE listed[first(byLabel)].number,
         titleNo |-> IF byTitle = {} THEN 0 ELSE listed[first(byTitle)].number]

\* One pass of the story loop of sync_stories_to_issues; in the first run
\* list_issues or create_issue may raise.
SyncStory ==
    /\ pc = "stories"
    /\ idx <= Len(stories)
    /\ \E fault \in IF run = 1 THEN {"none", "list_issues", "create_issue"} ELSE {"none"} :
       \E story \in {stories[idx]} :
       \E seen \in {Observed(story)} :
       \E r \in {create_or_update_issue(story, epic_map_get(epics, story.epic_id, Len(epics)),
                                        dry_run, idx,
                                        fault # "list_issues", fault # "create_issue")} :
          /\ fault = "create_issue" => Len(r.calls) = 2
          /\ issues' = r.issues
          /\ calls' = calls \o r.calls
          /\ attempts' = Append(attempts,
                [story |-> story, dry |-> dry_run, seen |-> seen,
                 raised |-> r.raised, found |-> r.found, issue |-> r.issue,
                 is_new |-> r.is_new])
          /\ created_issues' =
                IF ~r.raised /\ r.is_new /\ r.issue # NoIssue
                THEN Append(created_issues, Entry(story, r.issue))
                ELSE created_issues
          /\ existing_issues' =
                IF ~r.raised /\ ~r.is_new /\ r.issue # NoIssue
                THEN Append(existing_issues, Entry(story, r.issue))
                ELSE existing_issues
          /\ failed_issues' =
                IF r.raised
                THEN Append(failed_issues, Failure(story, "list_issues raised"))
                ELSE failed_issues
          /\ stories' =
                IF ~r.raised /\ r.found = NoIssue
                THEN [stories EXCEPT ![idx] = StoryAfterPayload(story)]
                ELSE stories
          /\ idx' = NextStory(idx, r.raised)
          /\ pc' = AfterStory(r.raised)
    /\ UNCHANGED <<epics, run, dry_run, summary, prev, boardVars,
                   clientVars, validationVars>>

\* The summary sync_stories_to_issues returns after the loop.
SyncFinish ==
    /\ pc = "stories"
    /\ idx > Len(stories)
    /\ summary' =
          [created |-> Len(created_issues), existing |-> Len(existing_issues),
           failed |-> Len(failed_issues), total |-> Len(stories),
           created_issues |-> created_issues, existing_issues |-> existing_issues,
           failed_issues |-> failed_issues, dry_run |-> dry_run]
    /\ pc' = "done"
    /\ UNCHANGED <<stories, epics, issues, run, dry_run, idx, created_issues,
                   existing_issues, failed_issues, calls, attempts, prev, boardVars,
                   clientVars, validationVars>>

\* One create_board_from_model call: on its own with some issues_map, or
\* after a sync run without failed calls with the map built from its summary.
CreateBoard ==
    /\ \/ pc = "idle"
       \/ pc = "done" /\ Clean
    /\ \E board \in BoardPool, d \in BOOLEAN, listOk \in BOOLEAN, createOk \in BOOLEAN :
       \E issues_map \in IF pc = "idle" THEN MapPool
                         ELSE {IssuesMap(summary.created_issues \o summary.existing_issues)} :
       \E failing \in SUBSET (1..Len(Links(board, issues_map))) :
       \E r \in {create_board_from_model(board, issues_map, d, listOk, createOk, failing)} :
          /\ ~createOk => \E i \in 1..Len(r.calls) : r.calls[i].op = "create_project"
          /\ failing # {} => \E i \in 1..Len(r.calls) : r.calls[i].op = "add_issue_to_project"
          /\ board_in' = [board |-> board, issues_map |-> issues_map, dry_run |-> d,
                           projects |-> projects,
                           after |-> InputsAfterBoard(board, issues_map)]
          /\ board_calls' = r.calls
          /\ board_summary' = r.summary
          /\ projects' = r.projects
    /\ pc' = "board_done"
    /\ UNCHANGED <<syncVars, clientVars, validationVars>>

Next == SyncBegin \/ SyncStory \/ SyncFinish \/ CreateBoard

Spec == Init /\ [][Next]_vars

\* The runs against a tracker whose issues fit in one listing.
InitFair == Init /\ Len(issues) < DefaultLimit

\* A started sync run is carried on: the interpreter executes the story
\* loop and the summary construction to the end.
FairSpec == InitFair /\ [][Next]_vars /\ WF_vars(SyncStory) /\ WF_vars(SyncFinish)

\* No sync run and no board call: the adapters are not in use.
AdaptersIdle ==
    /\ stories = <<>> /\ epics = <<>> /\ issues = <<>> /\ projects = <<>>
    /\ pc = "idle" /\ run = 1 /\ dry_run = FALSE /\ idx = 1
    /\ created_issues = <<>> /\ existing_issues = <<>> /\ failed_issues = <<>>
    /\ summary = EmptySummary /\ calls = <<>> /\ attempts = <<>> /\ prev = NoPrev
    /\ board_in = NoBoardCall /\ board_calls = <<>> /\ board_summary = <<>>

(***************************************************************************)
(* GitHubClient.create_label against a repository, with either backend     *)
(***************************************************************************)
InitClient ==
    /\ AdaptersIdle
    /\ ValidationIdle
    /\ backend \in {"cli", "rest"}
    /\ client = NoClient
    /\ repo_labels = <<>>
    /\ requests = <<>>
    /\ label_result = NoLabelResult
    /\ call_result = NoCallResult

\* GitHubClient(config): __init__ picks the implementation and verifies
\* authentication; if that raises there is no client object.
NewClient ==
    /\ client = NoClient
    /\ \E outcome \in AuthOutcomes :
       \E raised \in {_verify_auth(check_auth(backend, outcome))} :
          client' = Client(IF raised = "" THEN "ready" ELSE "failed", outcome, raised)
    /\ UNCHANGED <<pc, syncVars, boardVars, backend, repo_labels, requests,
                   label_result, call_result, validationVars>>

\* One create_label call through a constructed client; the tracker may be
\* unavailable for the create or for the update request.
CreateLabel ==
    /\ client.state = "ready"
    /\ \E label \in LabelPool, createDown \in BOOLEAN, updateDown \in BOOLEAN :
       \E r \in {create_label(backend, repo_labels, label, createDown, updateDown)} :
          /\ repo_labels' = r.labels
          /\ requests' = r.requests
          /\ label_result' =
                [called |-> TRUE, label |-> label,
                 existed |-> label.name \in DOMAIN repo_labels,
                 down |-> createDown \/ updateDown, raised |-> r.raised]
    /\ UNCHANGED <<pc, syncVars, boardVars, backend, client, call_result,
                   validationVars>>

\* One call of an issue or project operation through a constructed client.
ClientCall ==
    /\ client.state = "ready"
    /\ \E op \in ClientOps, outcome \in TransportOutcomes :
       \E r \in {client_call(backend, op, outcome)} :
          call_result' = [called |-> TRUE, op |-> op, outcome |-> outcome,
                          raised |-> r.raised, sent |-> r.sent]
    /\ UNCHANGED <<pc, syncVars, boardVars, backend, client, repo_labels, requests,
                   label_result, validationVars>>

NextClient == NewClient \/ CreateLabel \/ ClientCall

SpecClient == InitClient /\ [][NextClient]_vars

(***************************************************************************)
(* ValidationService over a data directory                                 *)
(***************************************************************************)
StoriesFiles ==
    { Json(<<Story("S1", "T1", "E1", 3, <<"bug">>)>>),
      Json(<<Story("S1", "T1", "E1", 3, <<"bug">>), Story("S2", "T2", "", 0, <<>>)>>),
      Json(<<Story("S1", "T1", "E1", 3, <<"bug">>), Story("S3", "T1", "E9", 11, <<>>)>>),
      Json(<<Story("S1", "T1", "E1", 0 - 1, <<>>)>>),
      Missing, Malformed }

EpicsFiles ==
    { Json(<<Epic("E1", "Epic one", <<"S1">>)>>),
      Json(<<Epic("E1", "Epic one", <<"S1", "S7">>), Epic("E2", "Epic two", <<>>)>>),
      Json(<<[id |-> "E1", description |-> "d", stories |-> <<"S1">>]>>),
      Missing, Malformed }

SprintsFiles ==
    { Json(<<Sprint("Sprint 1", <<"S1">>)>>),
      Json(<<Sprint("Sprint 1", <<"S1", "S8">>)>>),
      Malformed }

BoardFiles ==
    { Json([board |-> Board("Sprint Board", <<"To Do", "Done">>,
                            <<Column("To Do", <<"S1">>)>>)]),
      Json([board |-> Board("Sprint Board", <<"To Do", "Done">>,
                            <<Column("Doing", <<"S1", "S9">>), Column("Done", <<"S9">>)>>)]),
      Json([board |-> [Board("Sprint Board", <<"To Do">>, <<Column("To Do", <<"S1">>)>>)
                          EXCEPT !.type = "other"]]),
      Missing }

ViewsFiles ==
    { Json(<<View("Board")>>), Json(<<[type |-> "board", name |-> "Board"]>>), Missing }

ProjectMetaFiles == { Json(ProjectMeta("PMAC")), Malformed }

ProjectPlanFiles ==
    { Json([project |-> ProjectMeta("PMAC"),
            epics |-> <<Epic("E1", "Epic one", <<"S1">>)>>,
            stories |-> <<Story("S1", "T1", "E1", 3, <<"bug">>)>>,
            sprints |-> <<Sprint("Sprint 1", <<"S1">>)>>,
            views |-> <<View("Board")>>]),
      Json([project |-> ProjectMeta("PMAC"),
            epics |-> <<Epic("E1", "Epic one", <<"S1">>)>>,
            stories |-> <<[id |-> "S1", description |-> "d", epic_id |-> "E1",
                           story_points |-> 3, status |-> "Blocked"]>>,
            sprints |-> <<>>]),
      Missing }

DataDirs ==
    { [f \in Range(SCHEMA_MAP) |->
          CASE f = "epics.json" -> e
            [] f = "stories.json" -> s
            [] f = "sprints.json" -> sp
            [] f = "scrum_board.json" -> b
            [] f = "views.json" -> v
            [] f = "project_meta.json" -> m
            [] f = "project_plan.json" -> p] :
      e \in EpicsFiles, s \in StoriesFiles, sp \in SprintsFiles, b \in BoardFiles,
      v \in ViewsFiles, m \in ProjectMetaFiles, p \in ProjectPlanFiles }

InitValidation ==
    /\ AdaptersIdle
    /\ ClientIdle
    /\ data_dir \in DataDirs
    /\ validation = NoValidation

Returned(op, arg, result) == [op |-> op, arg |-> arg, result |-> result]

ValidateFile ==
    /\ \E filename \in Range(SCHEMA_MAP) \cup {"notes.json"} :
          validation' = Returned("validate_file", filename, validate_file(filename))
    /\ UNCHANGED <<pc, syncVars, boardVars, clientVars, data_dir>>

ValidateAllFiles ==
    /\ validation' = Returned("validate_all_files", "", validate_all_files)
    /\ UNCHANGED <<pc, syncVars, boardVars, clientVars, data_dir>>

ValidateRelationships ==
    /\ validation' = Returned("validate_relationships", "", validate_relationships)
    /\ UNCHANGED <<pc, syncVars, boardVars, clientVars, data_dir>>

ValidateAll ==
    /\ validation' = Returned("validate_all", "", validate_all)
    /\ UNCHANGED <<pc, syncVars, boardVars, clientVars, data_dir>>

NextValidation == ValidateFile \/ ValidateAllFiles \/ ValidateRelationships \/ ValidateAll

SpecValidation == InitValidation /\ [][NextValidation]_vars

(***************************************************************************)
(* Validation, then the sync of the valid stories, then the board          *)
(***************************************************************************)
\* Three stories of which one names an epic that does not exist; in the
\* second set the two valid stories have the same summary.
EndToEndStories ==
    { <<Story("S1", "T1", "E1", 3, <<"bug">>), Story("S2", "T2", "E2", 0, <<>>),
        Story("S3", "T3", "E9", 5, <<>>)>>,
      <<Story("S1", "T1", "E1", 3, <<"bug">>), Story("S2", "T1", "E2", 0, <<>>),
        Story("S3", "T3", "E9", 5, <<>>)>>,
      <<Story("S1", "T1", "E9", 3, <<"bug">>), Story("S2", "T2", "E1", 8, <<>>),
        Story("S3", "T3", "E2", 5, <<"bug">>)>> }

\* Two epics, the three stories, one sprint and the board of two columns
\* that assigns the three story ids.
EndToEndDirs ==
    { [f \in Range(SCHEMA_MAP) |->
          CASE f = "epics.json" ->
                   Json(<<Epic("E1", "Epic one", <<>>), Epic("E2", "Epic two", <<>>)>>)
            [] f = "stories.json" -> Json(s)
            [] f = "sprints.json" -> Json(<<Sprint("Sprint 1", <<"S1", "S2", "S3">>)>>)
            [] f = "scrum_board.json" ->
                   Json([board |-> Board("Sprint Board", <<"To Do", "Done">>,
                            <<Column("To Do", <<"S1", "S2">>), Column("Done", <<"S3">>)>>)])
            [] f = "views.json" -> Json(<<View("Board")>>)
            [] f = "project_meta.json" -> Json(ProjectMeta("PMAC"))
            [] f = "project_plan.json" -> Missing] :
      s \in EndToEndStories }

\* The stories of the data directory whose epic exists: the ones a caller
\* hands to sync_stories_to_issues after validation.
ValidStories(dir) ==
    SelectSeq(dir["stories.json"].data,
              LAMBDA story : story.epic_id \in Ids(dir["epics.json"].data))

InitEndToEnd ==
    /\ data_dir \in EndToEndDirs
    /\ validation = NoValidation
    /\ stories = ValidStories(data_dir)
    /\ epics = data_dir["epics.json"].data
    /\ issues = <<>>
    /\ projects = <<>>
    /\ pc = "idle" /\ run = 1 /\ dry_run = FALSE /\ idx = 1
    /\ created_issues = <<>> /\ existing_issues = <<>> /\ failed_issues = <<>>
    /\ summary = EmptySummary /\ calls = <<>> /\ attempts = <<>> /\ prev = NoPrev
    /\ board_in = NoBoardCall /\ board_calls = <<>> /\ board_summary = <<>>
    /\ ClientIdle

NextEndToEnd ==
    ValidateRelationships \/ SyncBegin \/ SyncStory \/ SyncFinish \/ CreateBoard

SpecEndToEnd == InitEndToEnd /\ [][NextEndToEnd]_vars

(***************************************************************************)
(* Properties                                                              *)
(***************************************************************************)
SyncRan == pc \in {"stories", "done"}

\* The positions in calls of the calls of operation op made for story k.
CallsFor(op, k) == {i \in 1..Len(calls) : calls[i].op = op /\ calls[i].idx = k}

\* C1: every returned sync summary satisfies
\* created + existing + failed = total = number of input stories.
C1_SummaryPartition ==
    pc = "done" =>
        /\ summary.total = Len(stories)
        /\ summary.created + summary.existing + summary.failed = summary.total

\* C2: in a non-dry run every story one of whose remote calls (list_issues or
\* create_issue) failed is listed in failed_issues with its id and an error,
\* and is counted in failed.
C2_FailuresRecorded ==
    pc = "done" /\ ~dry_run =>
        LET failedStories ==
                {k \in 1..Len(attempts) :
                    \E i \in 1..Len(calls) : calls[i].idx = k /\ ~calls[i].ok}
        IN  /\ \A k \in failedStories :
                  \E j \in 1..Len(summary.failed_issues) :
                      /\ summary.failed_issues[j].story_id = attempts[k].story.id
                      /\ summary.failed_issues[j].error # ""
            /\ summary.failed >= Cardinality(failedStories)

\* C3: when the run has returned, discovery was attempted for every input
\* story, and create_issue for every story of a non-dry run whose discovery
\* matched nothing, whatever happened to the stories before it.
C3_EveryStoryAttempted ==
    pc = "done" =>
        \A k \in 1..Len(stories) :
            /\ CallsFor("list_issues", k) # {}
            /\ Len(attempts) >= k
            /\ attempts[k].story = stories[k]
            /\ (~dry_run /\ ~attempts[k].raised
                    /\ attempts[k].seen.labelNo = 0 /\ attempts[k].seen.titleNo = 0)
                  => CallsFor("create_issue", k) # {}

C3_Witness ==
    /\ pc = "done"
    /\ Len(stories) = 2
    /\ stories[1].id # stories[2].id
    /\ ~dry_run
    /\ attempts[1].raised
    /\ CallsFor("create_issue", 2) # {}

\* C4: when some issue of the repository, at any position and in any state,
\* carries the story's id as a label, create_or_update_issue does not call
\* create_issue and returns such an issue with is_new = False.
C4_LabelledNeverRecreated ==
    \A k \in 1..Len(attempts) :
        (attempts[k].seen.labelled # {} /\ ~attempts[k].raised) =>
            /\ CallsFor("create_issue", k) = {}
            /\ ~attempts[k].is_new
            /\ attempts[k].issue.number \in attempts[k].seen.labelled

\* C5: for a story that no issue of the repository matches by id label or by
\* title, a non-dry create_or_update_issue calls create_issue exactly once,
\* with title story.summary and labels containing story.id, and returns the
\* issue the tracker created with is_new = True.
C5_UnmatchedCreatedOnce ==
    \A k \in 1..Len(attempts) :
        LET a == attempts[k]
            made == CallsFor("create_issue", k)
        IN  (a.seen.labelled = {} /\ a.seen.titled = {} /\ ~a.dry /\ ~a.raised) =>
                /\ Cardinality(made) = 1
                /\ \A i \in made :
                      /\ calls[i].name = a.story.summary
                      /\ a.story.id \in calls[i].labels
                      /\ calls[i].ok =>
                            /\ a.is_new
                            /\ a.issue \in Range(issues)
                            /\ a.issue.title = a.story.summary
                            /\ a.story.id \in a.issue.labels

C5_Witness ==
    \E k \in 1..Len(attempts) :
        /\ attempts[k].seen.labelled = {} /\ attempts[k].seen.titled = {}
        /\ ~attempts[k].dry
        /\ attempts[k].is_new
        /\ attempts[k].issue # NoIssue

Mutating ==
    {"create_label", "update_label", "create_issue", "create_project",
     "add_issue_to_project"}

\* C6: with dry_run = True the sync run calls list_issues only and
\* create_board_from_model calls list_projects only: no mutating operation.
C6_DryRunNeverMutates ==
    /\ dry_run =>
          \A i \in 1..Len(calls) :
              calls[i].op = "list_issues" /\ calls[i].op \notin Mutating
    /\ board_in.dry_run =>
          \A i \in 1..Len(board_calls) :
              board_calls[i].op = "list_projects" /\ board_calls[i].op \notin Mutating

C6_Witness ==
    /\ pc = "board_done"
    /\ dry_run /\ board_in.dry_run
    /\ \E k \in 1..Len(attempts) : attempts[k].is_new
    /\ board_summary.is_new
    /\ Len(board_calls) > 0

\* C7: a dry-run create_or_update_issue returns (existing issue, False) when
\* discovery found an issue and (None, True) when it found none; for a found
\* issue the result is the same with dry_run = False.
C7_DryRunResult ==
    \A k \in 1..Len(attempts) :
        LET a == attempts[k]
        IN  ~a.raised =>
                /\ a.found # NoIssue => a.issue = a.found /\ ~a.is_new
                /\ (a.dry /\ a.found = NoIssue) => a.issue = NoIssue /\ a.is_new

C7_Witness ==
    /\ dry_run
    /\ \E k \in 1..Len(attempts) : attempts[k].found # NoIssue /\ ~attempts[k].is_new
    /\ \E k \in 1..Len(attempts) :
          ~attempts[k].raised /\ attempts[k].found = NoIssue /\ attempts[k].is_new

C9_TwoStageMatch ==
    \A k \in 1..Len(attempts) :
        LET a == attempts[k]
        IN  ~a.raised =>
                /\ a.seen.labelNo # 0 => a.found.number = a.seen.labelNo
                /\ (a.seen.labelNo = 0 /\ a.seen.titleNo # 0) =>
                        a.found.number = a.seen.titleNo
                /\ a.found = NoIssue <=> (a.seen.labelNo = 0 /\ a.seen.titleNo = 0)

C9_Witness ==
    \E k \in 1..Len(attempts) :
        LET a == attempts[k]
        IN  /\ ~a.raised
            /\ a.seen.titlePos # 0
            /\ a.seen.titlePos < a.seen.labelPos
            /\ a.seen.labelNo # a.seen.titleNo
            /\ a.found.number = a.seen.labelNo

\* C10: a non-dry run attempts create_label for exactly the story ids, the
\* 'epic:<id>' of every epic, 'points:1' .. 'points:10' and the distinct
\* free-form labels of the stories, each distinct free-form label once.
C10_RequiredLabels ==
    (SyncRan /\ ~dry_run) =>
        LET made == {i \in 1..Len(calls) : calls[i].op = "create_label"}
            ids == {stories[i].id : i \in 1..Len(stories)}
            epicNames == {"epic:" \o epics[i].id : i \in 1..Len(epics)}
            pointNames == {"points:1", "points:2", "points:3", "points:4", "points:5",
                           "points:6", "points:7", "points:8", "points:9", "points:10"}
            tags == {t \in {"bug", "S1", "S2", "S3"} :
                        \E i \in 1..Len(stories) : \E j \in 1..Len(stories[i].labels) :
                            stories[i].labels[j] = t}
        IN  /\ {calls[i].name : i \in made} = ids \cup epicNames \cup pointNames \cup tags
            /\ \A t \in tags :
                  Cardinality({i \in made : calls[i].name = t /\ calls[i].labels = {"D4C5F9"}}) = 1
            /\ Cardinality(made) = Len(stories) + Len(epics) + 10 + Cardinality(tags)

C10_Witness ==
    /\ pc = "stories" /\ ~dry_run
    /\ Len(epics) > 0
    /\ Len(stories) = 2
    /\ stories[1].id # stories[2].id
    /\ \A i \in 1..Len(stories) : "bug" \in Range(stories[i].labels)
    /\ \E i \in 1..Len(calls) : calls[i].op = "create_label" /\ calls[i].name = "bug"

\* C11: a create_label call that raises aborts nothing: the run still
\* attempts every required label after it, leaves label provisioning, and
\* the story pass discovers every story.
C11_LabelFailureAbortsNothing ==
    (SyncRan /\ ~dry_run) =>
        LET made == {i \in 1..Len(calls) : calls[i].op = "create_label"}
            tags == UNION {Range(stories[i].labels) : i \in 1..Len(stories)}
            required == Len(stories) + Len(epics) + 10 + Cardinality(tags)
        IN  \A f \in made :
                ~calls[f].ok =>
                    /\ Cardinality({i \in made : i > f}) = required - f
                    /\ pc = "done" =>
                          \A k \in 1..Len(stories) : CallsFor("list_issues", k) # {}

C11_Witness ==
    /\ pc = "done" /\ ~dry_run
    /\ Len(stories) = 2
    /\ calls[1].op = "create_label" /\ ~calls[1].ok
    /\ calls[2].op = "create_label" /\ calls[2].ok
    /\ CallsFor("list_issues", 2) # {}

\* C12: with either backend, a create_label call for a label the tracker
\* already holds, with the tracker reachable, sends an update carrying the
\* given color and description and returns without raising.
C12_LabelCreateIdempotent ==
    (label_result.called /\ label_result.existed /\ ~label_result.down) =>
        /\ ~label_result.raised
        /\ \E i \in 1..Len(requests) : requests[i] = Request("update", label_result.label)
        /\ repo_labels[label_result.label.name] = label_result.label

\* C13: whatever tracker calls fail, no exception leaves
\* sync_stories_to_issues or create_board_from_model: a started sync run
\* reaches its summary, and a finished call has returned a summary.
C13_AlwaysReturnsSummary ==
    /\ [](pc # "raised")
    /\ (pc = "stories") ~> (pc = "done")
    /\ [](pc = "done" => summary.total = Len(stories))
    /\ [](pc = "board_done" => "success" \in DOMAIN board_summary)

C13_Witness ==
    /\ pc = "done"
    /\ \E i \in 1..Len(calls) : calls[i].op = "create_label" /\ ~calls[i].ok
    /\ \E i \in 1..Len(calls) : calls[i].op = "list_issues" /\ ~calls[i].ok
    /\ \E i \in 1..Len(calls) : calls[i].op = "create_issue" /\ ~calls[i].ok
    /\ summary.total = 2

\* C14: every summary create_board_from_model returns has the fields
\* success, project_name, project_number, is_new, added_issues,
\* failed_issues and the two detail lists; every summary
\* sync_stories_to_issues returns has created, existing, failed, total, the
\* three lists and dry_run.
C14_SummariesFullyPopulated ==
    /\ pc = "board_done" =>
          {"success", "project_name", "project_number", "is_new", "added_issues",
           "failed_issues", "added_issues_details", "failed_issues_details"}
              \subseteq DOMAIN board_summary
    /\ pc = "done" =>
          {"created", "existing", "failed", "total", "created_issues",
           "existing_issues", "failed_issues", "dry_run"} \subseteq DOMAIN summary

\* The result of the relationship phase, when the last call ran it.
RelationshipsRan ==
    \/ validation.op = "validate_relationships"
    \/ validation.op = "validate_all" /\ validation.result.relationships_called

RelationshipResult ==
    IF validation.op = "validate_relationships" THEN validation.result
    ELSE validation.result.relationship_validation

FilesLoaded == \A i \in 1..Len(Loaded) : data_dir[Loaded[i]].state = "json"

Conforming(f) ==
    data_dir[f].state = "json" /\ iter_errors(f, data_dir[f].data) = <<>>

StoriesData == data_dir["stories.json"].data
EpicsData == data_dir["epics.json"].data
SprintsData == data_dir["sprints.json"].data
BoardData == data_dir["scrum_board.json"].data.board

\* The five referential checks as the claims state them: epic -> story,
\* story -> epic (if set), sprint -> story, assignment column, assignment
\* story.
Consistent ==
    /\ \A i \in 1..Len(EpicsData) : Range(EpicsData[i].stories) \subseteq Ids(StoriesData)
    /\ \A i \in 1..Len(StoriesData) :
          StoriesData[i].epic_id # "" => StoriesData[i].epic_id \in Ids(EpicsData)
    /\ \A i \in 1..Len(SprintsData) : Range(SprintsData[i].stories) \subseteq Ids(StoriesData)
    /\ \A i \in 1..Len(BoardData.initial_assignments) :
          /\ BoardData.initial_assignments[i].column \in Range(BoardData.columns)
          /\ Range(BoardData.initial_assignments[i].story_ids) \subseteq Ids(StoriesData)

\* C15: validate_all runs the relationship phase only if every structural
\* check passed; after a structural failure the relationship phase is not
\* run, its result has no errors and the overall result is invalid; the
\* overall result is valid only if both phases are.
C15_RelationshipsOnlyAfterStructure ==
    validation.op = "validate_all" =>
        LET r == validation.result
            broken == \E f \in DOMAIN r.schema_validation.results :
                          ~r.schema_validation.results[f].valid
        IN  /\ r.relationships_called <=> ~broken
            /\ broken => /\ r.relationship_validation.errors = <<>>
                         /\ ~r.valid
            /\ r.valid => ~broken /\ r.relationship_validation.valid
            /\ (~broken /\ r.relationship_validation.valid) => r.valid

C15_Witness ==
    /\ validation.op = "validate_all"
    /\ ~validation.result.relationships_called
    /\ data_dir["stories.json"].state = "json"
    /\ data_dir["epics.json"].state = "json"
    /\ \E i \in 1..Len(StoriesData) :
          "epic_id" \in DOMAIN StoriesData[i] /\ StoriesData[i].epic_id = "E9"
    /\ validation.result.relationship_validation.errors = <<>>

\* C16: validate_all_files returns a result for every declared file; a
\* missing or unparseable file fails with one error of its own, every file's
\* result is what validating that file alone gives, and the overall flag is
\* true iff every file is valid.
C16_FilesCheckedIndependently ==
    validation.op \in {"validate_all_files", "validate_all"} =>
        LET r == IF validation.op = "validate_all" THEN validation.result.schema_validation
                 ELSE validation.result
        IN  /\ DOMAIN r.results = Range(SCHEMA_MAP)
            /\ \A f \in DOMAIN r.results :
                  /\ data_dir[f].state = "missing" =>
                        r.results[f] = Checked(FALSE, <<"File not found: " \o f>>)
                  /\ data_dir[f].state = "malformed" =>
                        /\ ~r.results[f].valid
                        /\ Len(r.results[f].errors) = 1
                  /\ r.results[f].valid <=> Conforming(f)
            /\ r.valid <=> \A f \in Range(SCHEMA_MAP) : Conforming(f)

C16_Witness ==
    /\ validation.op = "validate_all_files"
    /\ data_dir["epics.json"].state = "missing"
    /\ data_dir["sprints.json"].state = "malformed"
    /\ ~validation.result.results["epics.json"].valid
    /\ ~validation.result.results["sprints.json"].valid
    /\ validation.result.results["project_plan.json"].valid
    /\ ~validation.result.valid

\* C17: validate_relationships on loadable files reports every story whose
\* non-empty epic_id is no epic's id, naming the story and the epic, and
\* returns valid with no errors when all five referential checks hold.
C17_DanglingEpicReported ==
    (RelationshipsRan /\ FilesLoaded) =>
        /\ \A i \in 1..Len(StoriesData) :
              (StoriesData[i].epic_id # "" /\ StoriesData[i].epic_id \notin Ids(EpicsData)) =>
                  /\ ~RelationshipResult.valid
                  /\ ("Story " \o StoriesData[i].id \o " references non-existent epic "
                         \o StoriesData[i].epic_id) \in Range(RelationshipResult.errors)
        /\ Consistent => RelationshipResult = Checked(TRUE, <<>>)

\* C18: on structurally valid data validate_relationships reports every
\* violation of each of the five checks, whatever the other checks found.
C18_ChecksAccumulate ==
    (RelationshipsRan /\ \A i \in 1..Len(Loaded) : Conforming(Loaded[i])) =>
        LET reported == Range(RelationshipResult.errors)
        IN  /\ \A i \in 1..Len(EpicsData) :
                  \A id \in Range(EpicsData[i].stories) \ Ids(StoriesData) :
                      ("Epic " \o EpicsData[i].id \o " references non-existent story " \o id)
                          \in reported
            /\ \A i \in 1..Len(StoriesData) :
                  (StoriesData[i].epic_id # "" /\ StoriesData[i].epic_id \notin Ids(EpicsData)) =>
                      ("Story " \o StoriesData[i].id \o " references non-existent epic "
                          \o StoriesData[i].epic_id) \in reported
            /\ \A i \in 1..Len(SprintsData) :
                  \A id \in Range(SprintsData[i].stories) \ Ids(StoriesData) :
                      ("Sprint " \o SprintsData[i].name \o " references non-existent story "
                          \o id) \in reported
            /\ \A i \in 1..Len(BoardData.initial_assignments) :
                  LET a == BoardData.initial_assignments[i]
                  IN  /\ a.column \notin Range(BoardData.columns) =>
                            ("Board initial assignment references non-existent column "
                                \o a.column) \in reported
                      /\ \A id \in Range(a.story_ids) \ Ids(StoriesData) :
                            ("Board initial assignment for column " \o a.column
                                \o " references non-existent story " \o id) \in reported

C18_Witness ==
    /\ validation.op = "validate_relationships"
    /\ \A i \in 1..Len(Loaded) : Conforming(Loaded[i])
    /\ "Epic E1 references non-existent story S7" \in Range(validation.result.errors)
    /\ "Story S3 references non-existent epic E9" \in Range(validation.result.errors)
    /\ "Sprint Sprint 1 references non-existent story S8" \in Range(validation.result.errors)
    /\ "Board initial assignment references non-existent column Doing"
          \in Range(validation.result.errors)
    /\ "Board initial assignment for column Done references non-existent story S9"
          \in Range(validation.result.errors)

\* C19: a story whose epic_id is the empty string produces no relationship
\* error, and data whose five referential checks hold validates as valid.
C19_EmptyEpicIdUnchecked ==
    (RelationshipsRan /\ FilesLoaded) =>
        /\ \A i \in 1..Len(StoriesData) :
              StoriesData[i].epic_id = "" =>
                  ("Story " \o StoriesData[i].id \o " references non-existent epic ")
                      \notin Range(RelationshipResult.errors)
        /\ (Consistent /\ \E i \in 1..Len(StoriesData) : StoriesData[i].epic_id = "")
              => RelationshipResult.valid

\* C20: validate_all returns valid for a data directory whose epics,
\* stories, sprints, scrum_board, views and project_meta files conform to
\* their schemas and are referentially consistent, every story naming an
\* epic; no other file is needed.
C20_SixFilesSuffice ==
    ( /\ validation.op = "validate_all"
      /\ \A f \in {"epics.json", "stories.json", "sprints.json", "scrum_board.json",
                    "views.json", "project_meta.json"} : Conforming(f)
      /\ Consistent
      /\ \A i \in 1..Len(StoriesData) : StoriesData[i].epic_id # "" )
        => validation.result.valid

\* The (column, story id) entries of the board of the last call, in order.
BoardEntries == Assignments(board_in.board.initial_assignments)

AddCalls == {i \in 1..Len(board_calls) : board_calls[i].op = "add_issue_to_project"}

BoardReturned == pc = "board_done" /\ board_summary.success

\* C21: a story id of initial_assignments that issues_map lacks is skipped
\* silently: the call returns its summary, no add_issue_to_project call
\* names the id, and neither detail list has a record for it.
C21_UnmappedStorySkipped ==
    pc = "board_done" =>
        \A e \in Range(BoardEntries) :
            e.story_id \notin DOMAIN board_in.issues_map =>
                /\ \A i \in AddCalls : board_calls[i].name # e.story_id
                /\ board_summary.success =>
                      /\ \A j \in 1..Len(board_summary.added_issues_details) :
                            board_summary.added_issues_details[j].story_id # e.story_id
                      /\ \A j \in 1..Len(board_summary.failed_issues_details) :
                            board_summary.failed_issues_details[j].story_id # e.story_id

C21_Witness ==
    /\ BoardReturned /\ ~board_in.dry_run
    /\ DOMAIN board_in.issues_map = {"S1"}
    /\ board_in.board.name = "Sprint Board"
    /\ board_summary.added_issues + board_summary.failed_issues = 1

\* C22: in a returned non-dry-run call with a project, the entries of
\* initial_assignments whose story id is in issues_map are, in order, the
\* add attempts, one each; each has its record in the added details if the
\* attempt succeeded and in the failed details if it failed, so that
\* added + failed is the number of such entries.
C22_OneRecordPerLink ==
    (BoardReturned /\ ~board_in.dry_run) =>
        LET linked == SelectSeq(BoardEntries,
                                LAMBDA e : e.story_id \in DOMAIN board_in.issues_map)
            attempts_ == SelectSeq(board_calls, LAMBDA c : c.op = "add_issue_to_project")
            record(e) == [story_id |-> e.story_id,
                          issue_number |-> board_in.issues_map[e.story_id],
                          column |-> e.column]
            okPos == SelectSeq([i \in 1..Len(linked) |-> i], LAMBDA i : attempts_[i].ok)
            badPos == SelectSeq([i \in 1..Len(linked) |-> i], LAMBDA i : ~attempts_[i].ok)
        IN  /\ Len(attempts_) = Len(linked)
            /\ \A i \in 1..Len(linked) : attempts_[i].name = linked[i].story_id
            /\ board_summary.added_issues_details =
                  [j \in 1..Len(okPos) |-> record(linked[okPos[j]])]
            /\ board_summary.failed_issues_details =
                  [j \in 1..Len(badPos) |-> record(linked[badPos[j]])]
            /\ board_summary.added_issues = Len(okPos)
            /\ board_summary.failed_issues = Len(badPos)
            /\ board_summary.added_issues + board_summary.failed_issues = Len(linked)

C22_Witness ==
    /\ BoardReturned /\ ~board_in.dry_run
    /\ board_in.board.name = "Backlog"
    /\ "S2" \in DOMAIN board_in.issues_map
    /\ board_summary.failed_issues = 1
    /\ board_summary.added_issues = 1
    /\ ~board_calls[Len(board_calls) - 1].ok
    /\ board_calls[Len(board_calls)].ok

\* The projects the owner had when the call was made whose title, or whose
\* title or name, is board.name: their positions in list order.
TitleMatches ==
    {i \in 1..Len(board_in.projects) : board_in.projects[i].title = board_in.board.name}

TitleOrNameMatches ==
    {i \in 1..Len(board_in.projects) :
        \/ board_in.projects[i].title = board_in.board.name
        \/ board_in.projects[i].name = board_in.board.name}

First(S) == CHOOSE i \in S : \A j \in S : i <= j

\* The call found an existing project: it returned one that is not new.
ProjectFound == BoardReturned /\ ~board_summary.is_new

ListedProjects ==
    \E i \in 1..Len(board_calls) : board_calls[i].op = "list_projects" /\ board_calls[i].ok

\* C23: the tracker's create_project is called only in a non-dry-run call
\* made while no project of the owner has board.name as its title.
C23_CreateOnlyWithoutMatch ==
    pc = "board_done" =>
        \A i \in 1..Len(board_calls) :
            board_calls[i].op = "create_project" =>
                ~board_in.dry_run /\ TitleMatches = {}

\* C24: a dry-run call for which no project of the owner matches
\* board.name attempts and records no link and reports is_new, no project
\* number and zero added and failed links; it creates no project.
C24_DryRunShortCircuit ==
    (pc = "board_done" /\ board_in.dry_run /\ TitleOrNameMatches = {}) =>
        /\ AddCalls = {}
        /\ board_summary.success
        /\ board_summary.is_new
        /\ board_summary.project_number = NoProject.number
        /\ board_summary.added_issues = 0 /\ board_summary.failed_issues = 0
        /\ board_summary.added_issues_details = <<>>
        /\ board_summary.failed_issues_details = <<>>
        /\ projects = board_in.projects

C24_Witness ==
    /\ pc = "board_done" /\ board_in.dry_run
    /\ board_in.board.name = "Sprint Board"
    /\ board_in.projects = <<Project(1, "Legacy", "Backlog")>>
    /\ DOMAIN board_in.issues_map = {"S1", "S2", "S3"}
    /\ board_summary.is_new

C26_AuthFailureAborts ==
    /\ (client.state # "none" /\ client.auth # "ok") =>
          /\ client.state = "failed"
          /\ client.raised = "GitHubAuthError"
          /\ requests = <<>>
          /\ ~label_result.called
          /\ repo_labels = <<>>
    /\ label_result.called => client.state = "ready" /\ client.auth = "ok"

C26_Witness ==
    /\ backend = "cli"
    /\ client = Client("failed", "unreachable", "GitHubAuthError")
    /\ requests = <<>>

\* C28: the payload of every create_issue call has the story's summary as
\* title and as label set exactly the story's labels, its id, 'epic:<id>'
\* iff epic_id is non-empty and 'points:<n>' iff story_points > 0; equal
\* stories of a run get equal payloads.
C28_PayloadOfStory ==
    SyncRan =>
        LET made == {i \in 1..Len(calls) : calls[i].op = "create_issue"}
            story(i) == stories[calls[i].idx]
        IN  /\ \A i \in made :
                  /\ calls[i].name = story(i).summary
                  /\ calls[i].labels =
                        Range(story(i).labels) \cup {story(i).id}
                        \cup (IF story(i).epic_id = "" THEN {}
                              ELSE {"epic:" \o story(i).epic_id})
                        \cup (IF story(i).story_points > 0
                              THEN {"points:" \o ToString(story(i).story_points)}
                              ELSE {})
            /\ \A i, j \in made :
                  story(i) = story(j) =>
                      calls[i].name = calls[j].name /\ calls[i].labels = calls[j].labels

C28_Witness ==
    /\ pc = "done" /\ ~dry_run
    /\ Len(stories) = 2
    /\ stories[1].epic_id = "" /\ stories[1].story_points = 0
    /\ stories[2].epic_id = "E9" /\ stories[2].story_points = 11
    /\ \E i \in CallsFor("create_issue", 1) : calls[i].labels = {"S2"}
    /\ \E i \in CallsFor("create_issue", 2) :
          calls[i].labels = {"S1", "bug", "S3", "epic:E9", "points:11"}

\* C29: a finished sync run of at least one story has called list_issues
\* exactly once, and no story of the run was matched to an issue that the
\* run itself created after that one listing.
C29_ListIssuesOncePerRun ==
    (pc = "done" /\ Len(stories) > 0) =>
        /\ Cardinality({i \in 1..Len(calls) : calls[i].op = "list_issues"}) = 1
        /\ \A k \in 1..Len(attempts) :
              attempts[k].found # NoIssue =>
                  \A j \in 1..Len(summary.created_issues) :
                      summary.created_issues[j].issue_number # attempts[k].found.number

\* C30: in a non-dry run all required create_label calls come before the
\* first list_issues or create_issue call, and none comes after it.
C30_LabelsBeforeIssues ==
    (SyncRan /\ ~dry_run) =>
        LET labelCalls == {i \in 1..Len(calls) : calls[i].op = "create_label"}
            issueCalls == {i \in 1..Len(calls) :
                              calls[i].op \in {"list_issues", "create_issue"}}
            tags == UNION {Range(stories[i].labels) : i \in 1..Len(stories)}
        IN  /\ \A l \in labelCalls : \A i \in issueCalls : l < i
            /\ issueCalls # {} =>
                  Cardinality(labelCalls)
                      = Len(stories) + Len(epics) + 10 + Cardinality(tags)

C30_Witness ==
    /\ pc = "done" /\ ~dry_run
    /\ Len(stories) = 2
    /\ calls[Len(calls)].op = "create_issue"
    /\ \E i \in 1..Len(calls) : calls[i].op = "create_label" /\ ~calls[i].ok
    /\ Cardinality({i \in 1..Len(calls) : calls[i].op = "create_label"}) >= 12

\* C27: with the relationships validated, the two valid stories synced in
\* a first non-dry run without failing calls against the empty tracker, and
\* the board populated without failing calls from the resulting issues_map:
\* the validator reported exactly one error, the sync created 2 issues with
\* none existing and none failed, and the board linked exactly the two
\* valid stories and not the third.
C27_EndToEnd ==
    ( /\ pc = "board_done"
      /\ validation.op = "validate_relationships"
      /\ run = 1 /\ ~dry_run /\ Clean /\ summary.total = 2
      /\ ~board_in.dry_run
      /\ board_in.board = data_dir["scrum_board.json"].data.board
      /\ \A i \in 1..Len(board_calls) : board_calls[i].ok )
    =>  /\ Len(validation.result.errors) = 1
        /\ summary.created = 2 /\ summary.existing = 0 /\ summary.failed = 0
        /\ board_summary.success
        /\ board_summary.added_issues = 2 /\ board_summary.failed_issues = 0
        /\ {board_summary.added_issues_details[i].story_id :
                i \in 1..Len(board_summary.added_issues_details)}
              = {stories[i].id : i \in 1..Len(stories)}
        /\ {board_summary.added_issues_details[i].issue_number :
                i \in 1..Len(board_summary.added_issues_details)}
              = {summary.created_issues[i].issue_number : i \in 1..2}
        /\ Cardinality({summary.created_issues[i].issue_number : i \in 1..2}) = 2

(***************************************************************************)
(* Provisioned labels, retries, read-only inputs                           *)
(***************************************************************************)
\* C31: in a non-dry run every label of a payload passed to create_issue is
\* the name of a create_label call made earlier in the same run.
C31_PayloadLabelsProvisioned ==
    (SyncRan /\ ~dry_run) =>
        \A j \in 1..Len(calls) :
            calls[j].op = "create_issue" =>
                \A l \in calls[j].labels :
                    \E i \in 1..(j - 1) :
                        calls[i].op = "create_label" /\ calls[i].name = l

\* C32: nothing is retried: a sync run calls create_issue at most once for
\* each input story, and a create_board_from_model call calls create_project
\* at most once and add_issue_to_project at most once for each entry of
\* initial_assignments, whether or not the calls fail.
C32_NoRetry ==
    /\ SyncRan =>
          /\ \A k \in 1..Len(stories) : Cardinality(CallsFor("create_issue", k)) <= 1
          /\ \A i \in 1..Len(calls) :
                calls[i].op = "create_issue" => calls[i].idx \in 1..Len(stories)
    /\ pc = "board_done" =>
          /\ Cardinality({i \in 1..Len(board_calls) :
                            board_calls[i].op = "create_project"}) <= 1
          /\ \A i, j \in AddCalls : board_calls[i].idx = board_calls[j].idx => i = j
          /\ \A s \in {board_calls[i].name : i \in AddCalls} :
                Cardinality({i \in AddCalls : board_calls[i].name = s})
                    <= Cardinality({j \in 1..Len(BoardEntries) :
                                        BoardEntries[j].story_id = s})

\* A board call whose create_project raised.
C32_Witness ==
    /\ pc = "board_done" /\ ~board_in.dry_run
    /\ ~board_summary.success
    /\ \E i \in 1..Len(board_calls) :
          board_calls[i].op = "create_project" /\ ~board_calls[i].ok

\* C33: an operation whose request meets an exhausted rate limit raises
\* GitHubRateLimitError to its caller and sends the request once.
C33_RateLimitDistinguished ==
    (call_result.called /\ call_result.outcome = "rate limited") =>
        /\ call_result.raised = "GitHubRateLimitError"
        /\ Len(call_result.sent) = 1

\* C34: the domain entities are read-only inputs: no step of a sync run or
\* of a board call changes a story (its labels list included) or an epic,
\* and when create_board_from_model returns, the board and issues_map it
\* was given are as they were passed.
C34_InputsReadOnly ==
    [][/\ stories' = stories
       /\ epics' = epics
       /\ pc' = "board_done" =>
             /\ board_in'.after.board = board_in'.board
             /\ board_in'.after.issues_map = board_in'.issues_map]_vars

\* A board call after a run that built the payload of a labelled story.
C34_Witness ==
    /\ pc = "board_done" /\ ~board_in.dry_run
    /\ summary.created >= 1
    /\ stories[1].labels # <<>>
    /\ \E i \in 1..Len(calls) : calls[i].op = "create_issue" /\ calls[i].idx = 1
    /\ board_summary.success
    /\ board_summary.added_issues >= 1

\* C35: after a non-dry run over stories with pairwise distinct ids in which
\* every tracker call succeeded, no two stories of created_issues and
\* existing_issues are mapped to the same issue number.
C35_OneIssuePerStory ==
    (/\ pc = "done" /\ ~dry_run /\ Clean
     /\ \A i, j \in 1..Len(stories) : stories[i].id = stories[j].id => i = j) =>
        LET mapped == summary.created_issues \o summary.existing_issues
        IN  \A i, j \in 1..Len(mapped) :
                mapped[i].issue_number = mapped[j].issue_number => i = j

\* The ids of the stories a summary list names.
StoryIds(entries) == {entries[i].story_id : i \in 1..Len(entries)}

\* C36: a dry run previews the real run made from the same tracker state
\* with every call succeeding: both list the same stories in
\* existing_issues, and the stories the dry run lists nowhere are exactly
\* the ones the real run creates.
C36_DryRunPreviewsRealRun ==
    (pc = "done" /\ run = 2 /\ prev.summary.dry_run /\ ~dry_run) =>
        LET dry == prev.summary
            listed == StoryIds(dry.created_issues) \cup StoryIds(dry.existing_issues)
                      \cup StoryIds(dry.failed_issues)
        IN  /\ StoryIds(dry.existing_issues) = StoryIds(summary.existing_issues)
            /\ {stories[i].id : i \in 1..Len(stories)} \ listed
                  = StoryIds(summary.created_issues)

\* The create_project request of the call was made and failed.
CreateProjectFailed ==
    \E i \in 1..Len(board_calls) :
        board_calls[i].op = "create_project" /\ ~board_calls[i].ok

\* C37: a non-dry-run create_board_from_model call made while no project of
\* the owner matches board.name and in which the tracker's create_project
\* fails returns success = False and is_new = False and makes no
\* add_issue_to_project call; every other call returns success = True.
C37_CreateFailureSummary ==
    pc = "board_done" =>
        IF ~board_in.dry_run /\ TitleOrNameMatches = {} /\ CreateProjectFailed
        THEN /\ ~board_summary.success
             /\ ~board_summary.is_new
             /\ AddCalls = {}
        ELSE board_summary.success

====
